---- MODULE Spec2Model ----
(***************************************************************************)
(* Model of main.py: a Flask gateway in front of Elasticsearch with two    *)
(* routes, movies() (validated, paginated, sorted full-text listing) and   *)
(* movie(movie_id) (lookup of one document).                               *)
(*                                                                         *)
(* Python values are modelled with their run-time type where the code's    *)
(* behaviour depends on it: a query-string value is a str (a sequence of   *)
(* characters where int() reads it), a default may be an int or an Enum    *)
(* member, a JSON value of an engine document is a str, a number or null.  *)
(* Library behaviour is the one of the API the code is written             *)
(* against: pydantic 1.x (validator, __fields__, dict()), Flask with       *)
(* JSON_SORT_KEYS.  The interpreter is not fixed by the code: format() of  *)
(* a member of a str-mixin Enum is the member's value up to Python 3.10    *)
(* and 'Class.member' from Python 3.11 on, and the model keeps both.       *)
(***************************************************************************)
EXTENDS Integers, Sequences, FiniteSets, TLC

(***************************************************************************)
(* Bounds of the model.                                                    *)
(***************************************************************************)
\* number of requests in flight in SpecConc
NRequests == 2
\* the numeric query-string values are the decimal strings of -1..MaxInt
MaxInt == 3
\* most hits the engine returns for one search
MaxHits == 2
\* most actors of a detail document
MaxActors == 2

(***************************************************************************)
(* Module constants of main.py                                             *)
(***************************************************************************)
ES_MOVIES_INDEX == "movies"

QS_PARAMS_VALIDATION_ERROR == 422

\* app.config['DEBUG'] = True
DEBUG == TRUE

(***************************************************************************)
(* State: one entry per request                                            *)
(***************************************************************************)
VARIABLES
    pc,         \* where the request is
    route,      \* "movies" or "movie"
    args,       \* request.args of a listing request
    movie_id,   \* the path parameter of a detail request
    qs_params,  \* movies(): the validated MoviesQSParamsModel
    es,         \* the request's Elasticsearch client: none, open, closed
    calls,      \* the engine calls the request issued, in order
    reply,      \* what the engine answered to the request's call
    outcome,    \* how the view function ended
    resp,       \* the HTTP response sent
    enum_format \* the interpreter's format() of a str-mixin Enum member:
                \* "value" (Python <= 3.10) or "str" (Python >= 3.11)

vars ==
    <<pc, route, args, movie_id, qs_params, es, calls, reply, outcome, resp, enum_format>>


(***************************************************************************)
(* Python values                                                           *)
(***************************************************************************)
\* an int object
PyInt(n) == [t |-> "int", i |-> n, s |-> <<>>]

\* a str object read by int(): its characters
PyStr(cs) == [t |-> "str", i |-> 0, s |-> cs]

\* a plain str (query-string value of sort, sort_order)
RawStr(v) == [t |-> "str", cls |-> "", v |-> v]

\* a member of a class X(str, Enum)
EnumMember(cls, v) == [t |-> "enum", cls |-> cls, v |-> v]

\* the empty dict {}
EmptyDict == [k \in {} |-> 0]

DigitChars == <<"0", "1", "2", "3", "4", "5", "6", "7", "8", "9">>

IsDigit(c) == \E k \in 1..10 : DigitChars[k] = c

DigitVal(c) == (CHOOSE k \in 1..10 : DigitChars[k] = c) - 1

RECURSIVE DigitsVal(_)
DigitsVal(cs) ==
    IF cs = <<>> THEN 0
    ELSE 10 * DigitsVal(SubSeq(cs, 1, Len(cs) - 1)) + DigitVal(cs[Len(cs)])

\* str(n) for an int n, as characters
RECURSIVE NatToChars(_)
NatToChars(n) ==
    IF n < 10 THEN <<DigitChars[n + 1]>>
    ELSE Append(NatToChars(n \div 10), DigitChars[(n % 10) + 1])

IntToChars(n) == IF n < 0 THEN <<"-">> \o NatToChars(0 - n) ELSE NatToChars(n)

\* the digits of an integer literal after its optional sign
Unsigned(cs) == IF cs # <<>> /\ cs[1] \in {"-", "+"} THEN Tail(cs) ELSE cs

\* int(x) does not raise: x is an int, or a str holding an optionally signed
\* run of decimal digits
IntCoercible(x) ==
    \/ x.t = "int"
    \/ /\ x.t = "str"
       /\ Unsigned(x.s) # <<>>
       /\ \A k \in 1..Len(Unsigned(x.s)) : IsDigit(Unsigned(x.s)[k])

\* int(x) where it does not raise
PyIntOf(x) ==
    IF x.t = "int" THEN x.i
    ELSE IF x.s[1] = "-" THEN 0 - DigitsVal(Unsigned(x.s))
    ELSE DigitsVal(Unsigned(x.s))

(***************************************************************************)
(* MoviesSortEnum, MoviesSortOrderEnum                                     *)
(***************************************************************************)
MoviesSortEnum == {"id", "title", "imdb_rating"}

MoviesSortOrderEnum == {"asc", "desc"}

(***************************************************************************)
(* _get_movies_qs_params: params.get(key, default) for the five keys.      *)
(* A request's args hold the set of keys present and each key's value.     *)
(***************************************************************************)
\* _get_movies_qs_params with another default for limit
qs_params_other_default(params) ==
    [limit |-> IF "limit" \in params.present THEN PyStr(params.limit) ELSE PyInt(10),
     page |-> IF "page" \in params.present THEN PyStr(params.page) ELSE PyInt(1),
     sort |-> IF "sort" \in params.present THEN RawStr(params.sort)
              ELSE EnumMember("MoviesSortEnum", "id"),
     sort_order |-> IF "sort_order" \in params.present THEN RawStr(params.sort_order)
                    ELSE EnumMember("MoviesSortOrderEnum", "asc"),
     search |-> IF "search" \in params.present THEN params.search ELSE ""]

_get_movies_qs_params(params) ==
    [limit |-> IF "limit" \in params.present THEN PyStr(params.limit) ELSE PyInt(50),
     page |-> IF "page" \in params.present THEN PyStr(params.page) ELSE PyInt(1),
     sort |-> IF "sort" \in params.present THEN RawStr(params.sort)
              ELSE EnumMember("MoviesSortEnum", "id"),
     sort_order |-> IF "sort_order" \in params.present THEN RawStr(params.sort_order)
                    ELSE EnumMember("MoviesSortOrderEnum", "asc"),
     search |-> IF "search" \in params.present THEN params.search ELSE ""]

(***************************************************************************)
(* MoviesQSParamsModel: pydantic validates every field in declaration      *)
(* order and collects the errors of all of them.                           *)
(***************************************************************************)
\* @validator('limit', 'page'): raises for v <= 0, else returns v.  The raise
\* statement builds ValidationError with one argument, which is a TypeError;
\* pydantic wraps a validator's TypeError as that field's error.
validate_for_pagination(v) ==
    IF v <= 0 THEN [ok |-> FALSE, v |-> v, type |-> "type_error"]
    ELSE [ok |-> TRUE, v |-> v, type |-> ""]

\* a field annotated int, then its validator
IntField(loc, x) ==
    IF ~IntCoercible(x) THEN <<[loc |-> loc, type |-> "type_error.integer"]>>
    ELSE IF ~validate_for_pagination(PyIntOf(x)).ok
         THEN <<[loc |-> loc, type |-> validate_for_pagination(PyIntOf(x)).type]>>
    ELSE <<>>

\* a field annotated with an Enum class: the member with that value
EnumField(loc, members, x) ==
    IF x.v \in members THEN <<>> ELSE <<[loc |-> loc, type |-> "type_error.enum"]>>

\* a field annotated str: every str passes
StrField(loc, x) == <<>>

\* validation that stops at the first field in error
FieldErrorsFirstOnly(d) ==
    IF IntField("limit", d.limit) # <<>> THEN IntField("limit", d.limit)
    ELSE IF IntField("page", d.page) # <<>> THEN IntField("page", d.page)
    ELSE IF EnumField("sort", MoviesSortEnum, d.sort) # <<>>
         THEN EnumField("sort", MoviesSortEnum, d.sort)
    ELSE EnumField("sort_order", MoviesSortOrderEnum, d.sort_order)

FieldErrors(d) ==
    IntField("limit", d.limit) \o IntField("page", d.page)
        \o EnumField("sort", MoviesSortEnum, d.sort)
        \o EnumField("sort_order", MoviesSortOrderEnum, d.sort_order)
        \o StrField("search", d.search)

\* the value of qs_params while no model object exists
NoParams ==
    [limit |-> 0, page |-> 0, sort |-> EnumMember("", ""),
     sort_order |-> EnumMember("", ""), search |-> ""]

\* MoviesQSParamsModel(**d): the object, or ValidationError with errors()
MoviesQSParamsModel(d) ==
    IF FieldErrors(d) # <<>> THEN [ok |-> FALSE, errors |-> FieldErrors(d), obj |-> NoParams]
    ELSE [ok |-> TRUE, errors |-> <<>>,
          obj |-> [limit |-> PyIntOf(d.limit), page |-> PyIntOf(d.page),
                   sort |-> EnumMember("MoviesSortEnum", d.sort.v),
                   sort_order |-> EnumMember("MoviesSortOrderEnum", d.sort_order.v),
                   search |-> d.search]]

(***************************************************************************)
(* Query compilation                                                       *)
(***************************************************************************)
\* a field of multi_match without ^boost has the engine's boost 1
DefaultBoost == 1

\* 'name^boost' is <<name, boost>>, 'name' is <<name>>
FieldWeight(f) == IF Len(f) = 2 THEN f[2] ELSE DefaultBoost

\* a body that has the clause for the empty text too
search_body_always(query_value) ==
    [query |->
        [multi_match |->
            [query |-> query_value,
             fuzziness |-> "auto",
             fields |-> << <<"title", 5>>, <<"description", 4>>, <<"genre", 3>>,
                           <<"actors_names", 3>>, <<"writers_names", 2>>,
                           <<"director">> >>]]]

_get_es_search_body_param(query_value) ==
    IF query_value = "" THEN EmptyDict
    ELSE [query |->
            [multi_match |->
                [query |-> query_value,
                 fuzziness |-> "auto",
                 fields |-> << <<"title", 5>>, <<"description", 4>>, <<"genre", 3>>,
                               <<"actors_names", 3>>, <<"writers_names", 2>>,
                               <<"director">> >>]]]

\* ShortMovieModel.__fields__.keys(), in declaration order
ShortMovieModelFields == <<"id", "title", "imdb_rating">>

_get_es_filter_path_param ==
    [k \in 1..Len(ShortMovieModelFields) |-> "hits.hits._source." \o ShortMovieModelFields[k]]

\* format() of a str is the str; of a member of a str-mixin Enum it is the
\* value (str.__format__) or str(member), 'Class.member', by interpreter.
\* The members of both Enum classes are named as their values.
PyFormat(x) ==
    IF x.t = "enum" /\ enum_format = "str" THEN x.cls \o "." \o x.v ELSE x.v

_get_es_sort_param(field, sort_order) ==
    LET sort_field == IF field.v = "title" THEN RawStr("title.raw") ELSE field
    IN  PyFormat(sort_field) \o ":" \o PyFormat(sort_order)

\* es.search with one-based pages taken as zero-based
SearchCallPageTimesLimit(params) ==
    [op |-> "search",
     index |-> ES_MOVIES_INDEX,
     body |-> _get_es_search_body_param(params.search),
     filter_path |-> _get_es_filter_path_param,
     from_ |-> params.page * params.limit,
     size |-> params.limit,
     sort |-> _get_es_sort_param(params.sort, params.sort_order)]

\* the keyword arguments of es.search in movies()
SearchCall(params) ==
    [op |-> "search",
     index |-> ES_MOVIES_INDEX,
     body |-> _get_es_search_body_param(params.search),
     filter_path |-> _get_es_filter_path_param,
     from_ |-> (params.page - 1) * params.limit,
     size |-> params.limit,
     sort |-> _get_es_sort_param(params.sort, params.sort_order)]

(***************************************************************************)
(* JSON values of engine documents, exceptions, handler outcomes           *)
(***************************************************************************)
JStr(v) == [t |-> "str", s |-> v, n |-> 0]

\* a JSON number with a fraction, in tenths (8.5 is JFloat(85))
JFloat(tenths) == [t |-> "float", s |-> "", n |-> tenths]

\* a JSON integer, in units
JInt(units) == [t |-> "int", s |-> "", n |-> units]

JNull == [t |-> "null", s |-> "", n |-> 0]

Exc(cls, info) == [cls |-> cls, info |-> info, code |-> 0]

\* werkzeug's HTTPException raised by abort(code)
HTTPException(code) == [cls |-> "HTTPException", info |-> "", code |-> code]

NoExc == Exc("", "")

NoOutcome == [kind |-> "none", status |-> 0, body |-> <<>>, exc |-> NoExc]

\* the view function returned body (and status)
Return(status, body) == [kind |-> "return", status |-> status, body |-> body, exc |-> NoExc]

\* an exception left the view function
Raise(exc) == [kind |-> "raise", status |-> 0, body |-> <<>>, exc |-> exc]

(***************************************************************************)
(* ShortMovieModel                                                         *)
(***************************************************************************)
\* a field annotated str: a str passes, null does not
StrValidator(x) == IF x.t = "str" THEN [ok |-> TRUE, v |-> x] ELSE [ok |-> FALSE, v |-> x]

\* a field annotated Optional[float]: None passes, a float passes, an int
\* becomes the float of the same value
OptionalFloatValidator(x) ==
    IF x.t \in {"null", "float"} THEN [ok |-> TRUE, v |-> x]
    ELSE IF x.t = "int" THEN [ok |-> TRUE, v |-> JFloat(10 * x.n)]
    ELSE [ok |-> FALSE, v |-> x]

NoSummary == [id |-> JNull, title |-> JNull, imdb_rating |-> JNull]

\* ShortMovieModel(id=, title=, imdb_rating=).dict()
ShortMovieModel(id, title, imdb_rating) ==
    IF StrValidator(id).ok /\ StrValidator(title).ok /\ OptionalFloatValidator(imdb_rating).ok
    THEN [ok |-> TRUE, exc |-> NoExc,
          val |-> [id |-> StrValidator(id).v, title |-> StrValidator(title).v,
                   imdb_rating |-> OptionalFloatValidator(imdb_rating).v]]
    ELSE [ok |-> FALSE, exc |-> Exc("ValidationError", "ShortMovieModel"), val |-> NoSummary]

\* the first key of keys, in order, that dict d lacks (0: none)
FirstMissing(d, keys) ==
    IF \E k \in 1..Len(keys) : keys[k] \notin DOMAIN d
    THEN CHOOSE k \in 1..Len(keys) :
            /\ keys[k] \notin DOMAIN d
            /\ \A j \in 1..(k - 1) : keys[j] \in DOMAIN d
    ELSE 0

\* from_es_hit reading imdb_rating with _source.get('imdb_rating')
from_es_hit_placeholder(es_hit) ==
    IF "_source" \notin DOMAIN es_hit
    THEN [ok |-> FALSE, exc |-> Exc("KeyError", "_source"), val |-> NoSummary]
    ELSE LET _source == es_hit["_source"]
             miss == FirstMissing(_source, <<"id", "title">>)
         IN  IF miss # 0
             THEN [ok |-> FALSE, exc |-> Exc("KeyError", <<"id", "title">>[miss]),
                   val |-> NoSummary]
             ELSE ShortMovieModel(_source["id"], _source["title"],
                                  IF "imdb_rating" \in DOMAIN _source
                                  THEN _source["imdb_rating"] ELSE JNull)

from_es_hit(es_hit) ==
    IF "_source" \notin DOMAIN es_hit
    THEN [ok |-> FALSE, exc |-> Exc("KeyError", "_source"), val |-> NoSummary]
    ELSE LET _source == es_hit["_source"]
             miss == FirstMissing(_source, <<"id", "title", "imdb_rating">>)
         IN  IF miss # 0
             THEN [ok |-> FALSE,
                   exc |-> Exc("KeyError", <<"id", "title", "imdb_rating">>[miss]),
                   val |-> NoSummary]
             ELSE ShortMovieModel(_source["id"], _source["title"], _source["imdb_rating"])

\* the first index at which the sequence of booleans oks is FALSE (0: none)
FirstFailing(oks) ==
    IF \E k \in 1..Len(oks) : ~oks[k]
    THEN CHOOSE k \in 1..Len(oks) : ~oks[k] /\ \A j \in 1..(k - 1) : oks[j]
    ELSE 0

\* return jsonify([ShortMovieModel.from_es_hit(hit).dict() for hit in es_movies['hits']['hits']])
MoviesProjection(es_movies) ==
    IF "hits" \notin DOMAIN es_movies THEN Raise(Exc("KeyError", "hits"))
    ELSE LET hits == es_movies["hits"]["hits"]
             bad == FirstFailing([k \in 1..Len(hits) |-> from_es_hit(hits[k]).ok])
         IN  IF bad # 0 THEN Raise(from_es_hit(hits[bad]).exc)
             ELSE Return(200, [k \in 1..Len(hits) |-> from_es_hit(hits[k]).val])

(***************************************************************************)
(* movie(): the projection of one document                                 *)
(***************************************************************************)
\* {'id': int(m['id']), 'name': m['name']}
ActorOk(m) == IntCoercible(m.id)

ActorEntry(m) == [id |-> PyIntOf(m.id), name |-> m.name]

\* the keys read before and after the actors comprehension, in evaluation order
DetailKeysBefore == <<"id", "title", "description", "imdb_rating", "writers", "actors">>

DetailKeysAfter == <<"genre", "director">>

\* the projection that leaves out the actors whose id does not coerce
MovieProjectionPartial(es_movie) ==
    LET miss == FirstMissing(es_movie, DetailKeysBefore \o DetailKeysAfter)
        acts == IF miss = 0 THEN SelectSeq(es_movie["actors"], ActorOk) ELSE <<>>
    IN  IF miss # 0 THEN Raise(Exc("KeyError", (DetailKeysBefore \o DetailKeysAfter)[miss]))
        ELSE Return(200,
                [id |-> es_movie["id"], title |-> es_movie["title"],
                 description |-> es_movie["description"],
                 imdb_rating |-> es_movie["imdb_rating"],
                 writers |-> es_movie["writers"],
                 actors |-> [k \in 1..Len(acts) |-> ActorEntry(acts[k])],
                 genre |-> es_movie["genre"], director |-> es_movie["director"]])

\* return jsonify(id=..., ..., actors=[...], genre=..., director=...)
MovieProjection(es_movie) ==
    LET before == FirstMissing(es_movie, DetailKeysBefore)
        after == FirstMissing(es_movie, DetailKeysAfter)
    IN  IF before # 0 THEN Raise(Exc("KeyError", DetailKeysBefore[before]))
        ELSE IF FirstFailing([k \in 1..Len(es_movie["actors"]) |->
                                ActorOk(es_movie["actors"][k])]) # 0
             THEN Raise(Exc("ValueError", "invalid literal for int()"))
        ELSE IF after # 0 THEN Raise(Exc("KeyError", DetailKeysAfter[after]))
        ELSE Return(200,
                [id |-> es_movie["id"], title |-> es_movie["title"],
                 description |-> es_movie["description"],
                 imdb_rating |-> es_movie["imdb_rating"],
                 writers |-> es_movie["writers"],
                 actors |-> [k \in 1..Len(es_movie["actors"]) |->
                                ActorEntry(es_movie["actors"][k])],
                 genre |-> es_movie["genre"], director |-> es_movie["director"]])

(***************************************************************************)
(* Flask: what the client gets for a view function's outcome               *)
(***************************************************************************)
NoResponse == [status |-> 0, body |-> <<>>]

\* A returned value is the response.  abort()'s HTTPException becomes the
\* response of its code.  Any other exception is unhandled: with DEBUG set
\* Flask re-raises it and the debugger of app.run answers 500 with the
\* traceback, exception included; without DEBUG Flask answers a bare 500.
FlaskResponse(out) ==
    IF out.kind = "return" THEN [status |-> out.status, body |-> out.body]
    ELSE IF out.exc.cls = "HTTPException"
         THEN [status |-> out.exc.code, body |-> <<>>]
    ELSE IF DEBUG THEN [status |-> 500, body |-> [traceback |-> out.exc]]
    ELSE [status |-> 500, body |-> <<>>]

(***************************************************************************)
(* Inputs: query strings, movie ids, and what the engine may answer        *)
(***************************************************************************)
\* values of limit and page: the decimal strings of -1..MaxInt, and "20",
\* "+2", "a", ""
RawInts ==
    {IntToChars(n) : n \in (0 - 1)..MaxInt}
        \cup {<<"2", "0">>, <<"+", "2">>, <<"a">>, <<>>}

RawSorts == {"id", "title", "imdb_rating", "Title"}

RawSortOrders == {"asc", "desc", "ASC"}

RawSearches == {"", "matrix"}

\* request.args: the keys present, and the value of each (absent: empty)
MkArgs(present, limit, page, sort, sort_order, search) ==
    [present |-> present, limit |-> limit, page |-> page, sort |-> sort,
     sort_order |-> sort_order, search |-> search]

NoArgs == MkArgs({}, <<>>, <<>>, "", "", "")

\* one key of a query string: absent, or present with a value of vals
KeyChoices(key, vals, absent) ==
    {[present |-> {}, v |-> absent]} \cup {[present |-> {key}, v |-> x] : x \in vals}

AllArgs ==
    {MkArgs(l.present \cup p.present \cup s.present \cup o.present \cup q.present,
            l.v, p.v, s.v, o.v, q.v) :
        l \in KeyChoices("limit", RawInts, <<>>),
        p \in KeyChoices("page", RawInts, <<>>),
        s \in KeyChoices("sort", RawSorts, ""),
        o \in KeyChoices("sort_order", RawSortOrders, ""),
        q \in KeyChoices("search", RawSearches, "")}

\* the query strings of the concurrent specification
FewArgs ==
    {NoArgs,
     MkArgs({"page"}, <<>>, <<"0">>, "", "", ""),
     MkArgs({"limit", "sort", "search"}, <<"2">>, <<>>, "title", "", "matrix")}

MovieIds == {"tt1", "unknown-id"}

\* restriction of dict d to the keys ks
Restrict(d, ks) == [k \in DOMAIN d \cap ks |-> d[k]]

Source1 == [id |-> JStr("tt1"), title |-> JStr("Alien"), imdb_rating |-> JFloat(85)]

Source2 == [id |-> JStr("tt2"), title |-> JStr("Brazil"), imdb_rating |-> JNull]

Source3 == [id |-> JStr("tt3"), title |-> JStr("Dune"), imdb_rating |-> JInt(7)]

\* hits as the engine returns them under filter_path: a field the document
\* lacks is left out
Hits ==
    {[_source |-> src] : src \in {Source1, Source2, Source3}}
        \cup {[_source |-> Restrict(Source1, ks)] :
                ks \in {{"id", "title"}, {"id", "imdb_rating"}, {"title", "imdb_rating"}}}

FewHits == {[_source |-> Source1], [_source |-> Restrict(Source1, {"id", "title"})]}

SeqsUpTo(S, n) == UNION {[1..k -> S] : k \in 0..n}

EngineErrors ==
    {Exc("ConnectionError", "engine error payload"),
     Exc("RequestError", "engine error payload")}

NoReply == [kind |-> "none", exc |-> NoExc, body |-> EmptyDict]

ReplyRaise(exc) == [kind |-> "raise", exc |-> exc, body |-> EmptyDict]

ReplyOk(body) == [kind |-> "ok", exc |-> NoExc, body |-> body]

\* what es.search may do: raise, or return the filtered response body, which
\* is {} when no document matched
SearchRepliesOf(hits, n) ==
    {ReplyRaise(e) : e \in EngineErrors}
        \cup {ReplyOk(EmptyDict)}
        \cup {ReplyOk([hits |-> [hits |-> hs]]) : hs \in SeqsUpTo(hits, n) \ {<<>>}}

AllSearchReplies == SearchRepliesOf(Hits, MaxHits)

FewSearchReplies == SearchRepliesOf(FewHits, 1)

Actors ==
    {[id |-> PyStr(<<"1">>), name |-> "Ann"],
     [id |-> PyInt(2), name |-> "Bob"],
     [id |-> PyStr(<<"x">>), name |-> "Cy"]}

\* a stored document with the actors acts
Document(acts) ==
    [id |-> JStr("tt1"), title |-> JStr("Alien"), description |-> JStr("In space"),
     imdb_rating |-> JFloat(85), writers |-> <<"w1", "w2">>, actors |-> acts,
     genre |-> JStr("horror"), director |-> JStr("Scott")]

Documents(acts, n) ==
    {Document(a) : a \in SeqsUpTo(acts, n)}
        \cup {Restrict(Document(<<>>), DOMAIN Document(<<>>) \ {k}) :
                k \in {"description", "director"}}

\* what es.get may do: raise NotFoundError or another error, or return the
\* document with its _source
GetRepliesOf(acts, n) ==
    {ReplyRaise(Exc("NotFoundError", "engine error payload"))}
        \cup {ReplyRaise(e) : e \in EngineErrors}
        \cup {ReplyOk([_source |-> d]) : d \in Documents(acts, n)}

AllGetReplies == GetRepliesOf(Actors, MaxActors)

FewGetReplies == GetRepliesOf(Actors, 1)

Requests == 1..NRequests

Init ==
    /\ pc = [r \in Requests |-> "idle"]
    /\ route = [r \in Requests |-> ""]
    /\ args = [r \in Requests |-> NoArgs]
    /\ movie_id = [r \in Requests |-> ""]
    /\ qs_params = [r \in Requests |-> NoParams]
    /\ es = [r \in Requests |-> "none"]
    /\ calls = [r \in Requests |-> <<>>]
    /\ reply = [r \in Requests |-> NoReply]
    /\ outcome = [r \in Requests |-> NoOutcome]
    /\ resp = [r \in Requests |-> NoResponse]
    /\ enum_format \in {"value", "str"}

\* with Elasticsearch(hosts=ES_URL) as es: the request's own client
ClientOpen(clients, r) == [clients EXCEPT ![r] = "open"]

\* one client shared by the requests: closing it closes it for all
ClientCloseShared(clients, r) ==
    [q \in DOMAIN clients |-> IF clients[q] = "none" THEN "none" ELSE "closed"]

\* leaving the with block, normally or by an exception, closes that client
ClientClose(clients, r) == [clients EXCEPT ![r] = "closed"]

\* GET /api/movies?<params>
ReceiveMovies(r, argss) ==
    /\ pc[r] = "idle"
    /\ pc' = [pc EXCEPT ![r] = "movies_validate"]
    /\ route' = [route EXCEPT ![r] = "movies"]
    /\ \E params \in argss : args' = [args EXCEPT ![r] = params]
    /\ UNCHANGED <<movie_id, qs_params, es, calls, reply, outcome, resp, enum_format>>

\* GET /api/movies/<movie_id>
ReceiveMovie(r) ==
    /\ pc[r] = "idle"
    /\ pc' = [pc EXCEPT ![r] = "movie_get"]
    /\ route' = [route EXCEPT ![r] = "movie"]
    /\ \E id \in MovieIds : movie_id' = [movie_id EXCEPT ![r] = id]
    /\ UNCHANGED <<args, qs_params, es, calls, reply, outcome, resp, enum_format>>

\* movies() without the return of the except branch
MoviesValidateNoReturn(r) ==
    /\ pc[r] = "movies_validate"
    /\ qs_params' =
            [qs_params EXCEPT ![r] = MoviesQSParamsModel(_get_movies_qs_params(args[r])).obj]
    /\ pc' = [pc EXCEPT ![r] = "movies_search"]
    /\ UNCHANGED <<route, args, movie_id, es, calls, reply, outcome, resp, enum_format>>

\* movies(): the try block; ValidationError returns 422 with exc.errors(),
\* which Flask sends
MoviesValidate(r) ==
    /\ pc[r] = "movies_validate"
    /\ LET m == MoviesQSParamsModel(_get_movies_qs_params(args[r]))
           ret == Return(QS_PARAMS_VALIDATION_ERROR, [detail |-> m.errors])
       IN  IF ~m.ok
           THEN /\ outcome' = [outcome EXCEPT ![r] = ret]
                /\ resp' = [resp EXCEPT ![r] = FlaskResponse(ret)]
                /\ pc' = [pc EXCEPT ![r] = "done"]
                /\ UNCHANGED qs_params
           ELSE /\ qs_params' = [qs_params EXCEPT ![r] = m.obj]
                /\ pc' = [pc EXCEPT ![r] = "movies_search"]
                /\ UNCHANGED <<outcome, resp>>
    /\ UNCHANGED <<route, args, movie_id, es, calls, reply, enum_format>>

\* movies(): the client is opened and es.search is called; the request waits
MoviesSearch(r) ==
    /\ pc[r] = "movies_search"
    /\ es' = ClientOpen(es, r)
    /\ calls' = [calls EXCEPT ![r] = Append(@, SearchCall(qs_params[r]))]
    /\ pc' = [pc EXCEPT ![r] = "movies_await"]
    /\ UNCHANGED <<route, args, movie_id, qs_params, reply, outcome, resp, enum_format>>

\* movies() from the answer of es.search on: nothing catches what es.search
\* raises; a result is projected by the return statement
MoviesAfterSearch(rep) ==
    IF rep.kind = "raise" THEN Raise(rep.exc) ELSE MoviesProjection(rep.body)

\* movies(): es.search returns or raises, the with block is left either way,
\* the view function ends and Flask sends the response
MoviesReply(r, replies) ==
    /\ pc[r] = "movies_await"
    /\ es' = ClientClose(es, r)
    /\ \E rep \in replies :
        /\ reply' = [reply EXCEPT ![r] = rep]
        /\ outcome' = [outcome EXCEPT ![r] = MoviesAfterSearch(rep)]
        /\ resp' = [resp EXCEPT ![r] = FlaskResponse(MoviesAfterSearch(rep))]
    /\ pc' = [pc EXCEPT ![r] = "done"]
    /\ UNCHANGED <<route, args, movie_id, qs_params, calls, enum_format>>

\* movie(): the client is opened and es.get is called; the request waits
MovieGet(r) ==
    /\ pc[r] = "movie_get"
    /\ es' = ClientOpen(es, r)
    /\ calls' = [calls EXCEPT
            ![r] = Append(@, [op |-> "get", index |-> ES_MOVIES_INDEX, id |-> movie_id[r]])]
    /\ pc' = [pc EXCEPT ![r] = "movie_await"]
    /\ UNCHANGED <<route, args, movie_id, qs_params, reply, outcome, resp, enum_format>>

\* movie() from the answer of es.get on: NotFoundError is caught and
\* abort(404) raises the HTTPException, any other error is not caught; a
\* result's _source is projected by the return statement
MovieAfterGet(rep) ==
    IF rep.kind = "raise"
    THEN IF rep.exc.cls = "NotFoundError" THEN Raise(HTTPException(404)) ELSE Raise(rep.exc)
    ELSE MovieProjection(rep.body["_source"])

\* movie(): es.get returns or raises, the with block is left either way, the
\* view function ends and Flask sends the response
MovieReply(r, replies) ==
    /\ pc[r] = "movie_await"
    /\ es' = ClientClose(es, r)
    /\ \E rep \in replies :
        /\ reply' = [reply EXCEPT ![r] = rep]
        /\ outcome' = [outcome EXCEPT ![r] = MovieAfterGet(rep)]
        /\ resp' = [resp EXCEPT ![r] = FlaskResponse(MovieAfterGet(rep))]
    /\ pc' = [pc EXCEPT ![r] = "done"]
    /\ UNCHANGED <<route, args, movie_id, qs_params, calls, enum_format>>

\* the steps of the requests rs, with inputs and engine answers from the sets
Step(rs, argss, searchReplies, getReplies) ==
    \E r \in rs :
        \/ ReceiveMovies(r, argss)
        \/ ReceiveMovie(r)
        \/ MoviesValidate(r)
        \/ MoviesSearch(r)
        \/ MoviesReply(r, searchReplies)
        \/ MovieGet(r)
        \/ MovieReply(r, getReplies)

\* one request, every input
Next == Step({1}, AllArgs, AllSearchReplies, AllGetReplies)

Spec == Init /\ [][Next]_vars

\* NRequests requests interleaved, a few inputs each
NextConc == Step(Requests, FewArgs, FewSearchReplies, FewGetReplies)

SpecConc == Init /\ [][NextConc]_vars

(***************************************************************************)
(* Properties                                                              *)
(***************************************************************************)
Range(f) == {f[k] : k \in DOMAIN f}

\* the listing requests whose validation step is over
Validated(r) == route[r] = "movies" /\ pc[r] \notin {"idle", "movies_validate"}

\* the strings of limit and page that are a positive integer: the decimal
\* strings of 1, 2, ... and "+2"
PositiveRaw == {IntToChars(n) : n \in 1..(MaxInt + 20)} \cup {<<"+", "2">>}

\* the fields of a query string that violate their constraint
InvalidFields(a) ==
    {k \in {"limit"} : k \in a.present /\ a.limit \notin PositiveRaw}
        \cup {k \in {"page"} : k \in a.present /\ a.page \notin PositiveRaw}
        \cup {k \in {"sort"} : k \in a.present /\ a.sort \notin {"id", "title", "imdb_rating"}}
        \cup {k \in {"sort_order"} : k \in a.present /\ a.sort_order \notin {"asc", "desc"}}

\* C1: a listing request whose validation failed returns 422 with
\* {"detail": errors}, is answered 422 with that body, and never opens a
\* client nor calls the engine; a listing request that called the engine
\* holds a validated parameter object.
C1_ValidationGatesEngine ==
    \A r \in Requests :
        route[r] = "movies" =>
            /\ (Validated(r) /\ qs_params[r] = NoParams) =>
                    /\ outcome[r].kind = "return"
                    /\ outcome[r].status = 422
                    /\ DOMAIN outcome[r].body = {"detail"}
                    /\ Len(outcome[r].body.detail) >= 1
                    /\ calls[r] = <<>>
                    /\ es[r] = "none"
                    /\ pc[r] = "done"
                    /\ resp[r].status = 422
                    /\ resp[r].body = outcome[r].body
            /\ (Validated(r) /\ InvalidFields(args[r]) # {}) => qs_params[r] = NoParams
            /\ calls[r] # <<>> =>
                    /\ qs_params[r] # NoParams
                    /\ InvalidFields(args[r]) = {}
                    /\ ~(outcome[r].kind = "return" /\ outcome[r].status = 422)

\* GET /api/movies?page=0 is answered 422 with an error that names page
C1_Witness ==
    \E r \in Requests :
        /\ pc[r] = "done"
        /\ args[r] = MkArgs({"page"}, <<>>, <<"0">>, "", "", "")
        /\ resp[r].status = 422
        /\ \E k \in 1..Len(resp[r].body.detail) : resp[r].body.detail[k].loc = "page"
        /\ calls[r] = <<>>

\* C2: after validation every missing key has its default (50, 1, id, asc,
\* ""), no error names a missing key, and a query string without any key
\* validates to exactly the defaults.
C2_MissingKeysTakeDefaults ==
    \A r \in Requests :
        Validated(r) =>
            /\ qs_params[r] # NoParams =>
                    /\ "limit" \notin args[r].present => qs_params[r].limit = 50
                    /\ "page" \notin args[r].present => qs_params[r].page = 1
                    /\ "sort" \notin args[r].present => qs_params[r].sort.v = "id"
                    /\ "sort_order" \notin args[r].present => qs_params[r].sort_order.v = "asc"
                    /\ "search" \notin args[r].present => qs_params[r].search = ""
            /\ qs_params[r] = NoParams =>
                    \A k \in 1..Len(outcome[r].body.detail) :
                        outcome[r].body.detail[k].loc \in args[r].present
            /\ args[r].present = {} =>
                    qs_params[r] =
                        [limit |-> 50, page |-> 1,
                         sort |-> EnumMember("MoviesSortEnum", "id"),
                         sort_order |-> EnumMember("MoviesSortOrderEnum", "asc"),
                         search |-> ""]

\* a request without any key has searched with the defaults
C2_Witness ==
    \E r \in Requests :
        /\ Validated(r)
        /\ args[r].present = {}
        /\ calls[r] # <<>>
        /\ calls[r][1].size = 50
        /\ calls[r][1].from_ = 0

\* C3: the errors of a failed validation name exactly the fields that
\* violate their constraint, once each, and validation succeeds exactly when
\* no field does.
C3_AllFieldErrorsCollected ==
    \A r \in Requests :
        Validated(r) =>
            IF InvalidFields(args[r]) = {}
            THEN /\ qs_params[r] # NoParams
                 /\ ~(outcome[r].kind = "return" /\ outcome[r].status = 422)
            ELSE /\ qs_params[r] = NoParams
                 /\ outcome[r].kind = "return"
                 /\ outcome[r].status = 422
                 /\ {e.loc : e \in Range(outcome[r].body.detail)} = InvalidFields(args[r])
                 /\ Len(outcome[r].body.detail) = Cardinality(InvalidFields(args[r]))

\* four invalid fields give four errors
C3_Witness ==
    \E r \in Requests :
        /\ pc[r] = "done"
        /\ args[r].limit = <<"a">>
        /\ args[r].page = <<"0">>
        /\ args[r].sort = "Title"
        /\ args[r].sort_order = "ASC"
        /\ resp[r].status = 422
        /\ Len(resp[r].body.detail) = 4

\* the actor ids int() accepts: an int, or a string of digits
IsIntId(x) == x.t = "int" \/ x.s \in {IntToChars(n) : n \in 0..9}

\* C4: on the detail route NotFound is answered 404 without a projection;
\* 200 is answered only for a found document whose actor ids all coerce,
\* with one actor entry each; a found document with an actor id that does
\* not coerce is answered 5xx with a body that has no actors.
C4_DetailOutcomes ==
    \A r \in Requests :
        route[r] = "movie" =>
            /\ (reply[r].kind = "raise" /\ reply[r].exc.cls = "NotFoundError") =>
                    /\ pc[r] = "done"
                    /\ outcome[r] = Raise(HTTPException(404))
                    /\ resp[r].status = 404
                    /\ resp[r].body = <<>>
            /\ (pc[r] = "done" /\ resp[r].status = 200) =>
                    /\ reply[r].kind = "ok"
                    /\ \A a \in Range(reply[r].body["_source"]["actors"]) : IsIntId(a.id)
                    /\ Len(resp[r].body.actors) = Len(reply[r].body["_source"]["actors"])
                    /\ \A k \in 1..Len(resp[r].body.actors) :
                            resp[r].body.actors[k].name =
                                reply[r].body["_source"]["actors"][k].name
            /\ (/\ pc[r] = "done"
                /\ reply[r].kind = "ok"
                /\ "actors" \in DOMAIN reply[r].body["_source"]
                /\ \E a \in Range(reply[r].body["_source"]["actors"]) : ~IsIntId(a.id)) =>
                    /\ resp[r].status \in 500..599
                    /\ "actors" \notin DOMAIN resp[r].body

\* a document whose second actor has a non-numeric id is answered 500
C4_Witness ==
    \E r \in Requests :
        /\ pc[r] = "done"
        /\ route[r] = "movie"
        /\ reply[r].kind = "ok"
        /\ "actors" \in DOMAIN reply[r].body["_source"]
        /\ Len(reply[r].body["_source"]["actors"]) = 2
        /\ IsIntId(reply[r].body["_source"]["actors"][1].id)
        /\ ~IsIntId(reply[r].body["_source"]["actors"][2].id)
        /\ resp[r].status = 500

\* C5: every failure is turned into a response by the view function: the
\* only exception that leaves a view function is abort()'s, and no response
\* carries an exception.
C5_FailuresBecomeResponsesInHandler ==
    \A r \in Requests :
        /\ outcome[r].kind = "raise" => outcome[r].exc.cls = "HTTPException"
        /\ pc[r] = "done" => "traceback" \notin DOMAIN resp[r].body

\* the query-string value of key k, or dflt when the key is missing
ArgOr(a, k, dflt) == IF k \in a.present THEN a[k] ELSE dflt

\* the search calls of request r
SearchCalls(r) == {c \in Range(calls[r]) : c.op = "search"}

\* C6: the body of a search has a query clause exactly when the search text
\* is not empty; the clause is a multi_match of that text with fuzziness
\* auto over title, description, genre, actors_names, writers_names,
\* director with weights 5, 4, 3, 3, 2, 1.
C6_FullTextClause ==
    \A r \in Requests : \A c \in SearchCalls(r) :
        LET text == ArgOr(args[r], "search", "")
        IN  /\ ("query" \in DOMAIN c.body) <=> (text # "")
            /\ text = "" => c.body = EmptyDict
            /\ text # "" =>
                LET mm == c.body.query.multi_match
                IN  /\ DOMAIN c.body = {"query"}
                    /\ DOMAIN c.body.query = {"multi_match"}
                    /\ mm.query = text
                    /\ mm.fuzziness = "auto"
                    /\ [k \in 1..Len(mm.fields) |-> mm.fields[k][1]] =
                            <<"title", "description", "genre", "actors_names",
                              "writers_names", "director">>
                    /\ [k \in 1..Len(mm.fields) |-> FieldWeight(mm.fields[k])] =
                            <<5, 4, 3, 3, 2, 1>>

\* a search for "matrix" was issued with a query clause
C6_Witness ==
    \E r \in Requests : \E c \in SearchCalls(r) :
        /\ args[r].search = "matrix"
        /\ "query" \in DOMAIN c.body
        /\ c.body.query.multi_match.query = "matrix"

\* the integer a limit or page string stands for: n with str(n) or "+" str(n)
\* equal to the string
RawValue(cs) ==
    CHOOSE n \in 1..(MaxInt + 20) : cs \in {IntToChars(n), <<"+">> \o IntToChars(n)}

\* C7: a search is issued with from_ = (page - 1) * limit and size = limit
\* for the page and limit of the query string (defaults 1 and 50), so from_
\* is >= 0 and a multiple of limit, and size is the limit whatever its value.
C7_PaginationOffset ==
    \A r \in Requests : \A c \in SearchCalls(r) :
        LET limit == IF "limit" \in args[r].present THEN RawValue(args[r].limit) ELSE 50
            page == IF "page" \in args[r].present THEN RawValue(args[r].page) ELSE 1
        IN  /\ c.from_ = (page - 1) * limit
            /\ c.size = limit
            /\ c.from_ >= 0
            /\ c.from_ % limit = 0
            /\ (page = 1 /\ limit = 50) => c.from_ = 0
            /\ (page = 3 /\ limit = 20) => c.from_ = 40

\* page=3, limit=20 is searched from 40
C7_Witness ==
    \E r \in Requests : \E c \in SearchCalls(r) :
        /\ args[r].page = <<"3">>
        /\ args[r].limit = <<"2", "0">>
        /\ c.from_ = 40
        /\ c.size = 20

\* C8: the sort argument of a search is <key>:<direction>, the key being
\* title.raw for sort=title and the field name for id and imdb_rating, the
\* direction being the validated sort_order.
C8_SortParam ==
    \A r \in Requests : \A c \in SearchCalls(r) :
        LET field == ArgOr(args[r], "sort", "id")
            order == ArgOr(args[r], "sort_order", "asc")
        IN  /\ field \in {"id", "title", "imdb_rating"}
            /\ order \in {"asc", "desc"}
            /\ field = "title" => c.sort = "title.raw:" \o order
            /\ field = "id" => c.sort = "id:" \o order
            /\ field = "imdb_rating" => c.sort = "imdb_rating:" \o order

\* a JSON number's value in tenths
Tenths(x) == IF x.t = "int" THEN 10 * x.n ELSE x.n

\* the same JSON value, a number being the same whether int or float
SameJson(x, y) ==
    IF x.t \in {"int", "float"} THEN y.t \in {"int", "float"} /\ Tenths(x) = Tenths(y)
    ELSE x = y

\* a hit that carries id, title and imdb_rating
FullHit(h) ==
    "_source" \in DOMAIN h /\ DOMAIN h["_source"] = {"id", "title", "imdb_rating"}

\* C9: the body of a 200 listing response has one entry per hit of the
\* engine's answer, in that order, each with exactly id, title, imdb_rating
\* of that hit, the fields named by the filter_path sent; an answer with a
\* hit that lacks one of the fields is not answered 200 and has no list.
C9_ListingProjection ==
    \A r \in Requests :
        (route[r] = "movies" /\ pc[r] = "done") =>
            /\ resp[r].status = 200 =>
                    /\ reply[r].kind = "ok"
                    /\ "hits" \in DOMAIN reply[r].body
                    /\ LET hits == reply[r].body["hits"]["hits"]
                           body == resp[r].body
                       IN  /\ Len(body) = Len(hits)
                           /\ \A k \in 1..Len(hits) :
                                /\ FullHit(hits[k])
                                /\ DOMAIN body[k] = {"id", "title", "imdb_rating"}
                                /\ {"hits.hits._source." \o f : f \in DOMAIN body[k]} =
                                        Range(calls[r][1].filter_path)
                                /\ body[k].id = hits[k]["_source"]["id"]
                                /\ body[k].title = hits[k]["_source"]["title"]
                                /\ SameJson(body[k].imdb_rating,
                                            hits[k]["_source"]["imdb_rating"])
            /\ (/\ reply[r].kind = "ok"
                /\ "hits" \in DOMAIN reply[r].body
                /\ \E h \in Range(reply[r].body["hits"]["hits"]) : ~FullHit(h)) =>
                    /\ resp[r].status = 500
                    /\ outcome[r].kind = "raise"

\* two different hits are answered as two entries in the engine's order
C9_Witness ==
    \E r \in Requests :
        /\ route[r] = "movies"
        /\ pc[r] = "done"
        /\ resp[r].status = 200
        /\ Len(resp[r].body) = 2
        /\ resp[r].body[1].id = JStr("tt2")
        /\ resp[r].body[2].id = JStr("tt1")
        /\ resp[r].body[1].imdb_rating = JNull

\* C10: a request issues at most one engine call, on its own client, which
\* is open exactly while the request waits for the engine and closed once
\* the view function is left; two finished requests with the same input and
\* the same engine answer got the same response.
C10_RequestsIndependent ==
    \A r \in Requests :
        /\ Len(calls[r]) <= 1
        /\ (es[r] = "open") <=> (pc[r] \in {"movies_await", "movie_await"})
        /\ (es[r] = "none") <=> (calls[r] = <<>>)
        /\ pc[r] = "done" => es[r] \in {"none", "closed"}
        /\ reply[r] # NoReply => Len(calls[r]) = 1
        /\ \A q \in Requests :
            (/\ pc[r] = "done" /\ pc[q] = "done"
             /\ route[r] = route[q] /\ args[r] = args[q] /\ movie_id[r] = movie_id[q]
             /\ reply[r] = reply[q]) => resp[r] = resp[q]

\* two requests wait for the engine at the same time, one of each route
C10_Witness ==
    \E r, q \in Requests :
        /\ pc[r] = "movies_await" /\ pc[q] = "movie_await"
        /\ es[r] = "open" /\ es[q] = "open"

====
